---- MODULE Spec2Model ----
(***************************************************************************)
(* Attendance and shift engine of the office-management backend.           *)
(*                                                                         *)
(* Three deployments of the same Attendance collection are modelled:       *)
(*   "day"      src/src/routes/attendance.routes.js                        *)
(*              with the schema src/src/models/Attendance.js               *)
(*   "night405" the night-shift routes of src/unnamed/part_001             *)
(*              with the schema src/unnamed/part_007 (04:05 boundary)      *)
(*   "night400" the same routes with the schema src/unnamed/part_006       *)
(*              (04:00 boundary)                                           *)
(*                                                                         *)
(* Time is an integer number of seconds of local time; a Date of the code  *)
(* is such an integer, a calendar day has 24 hours (no DST change).        *)
(* workingHours and overtime are kept in seconds (the code's hours times   *)
(* 3600), break durations in whole minutes as in the code.                 *)
(*                                                                         *)
(* Every route handler that awaits the database is two steps: the call     *)
(* (the code up to and including the findOne) and the completion (the code *)
(* after the await, with its save or create).  Handlers of several         *)
(* requests interleave between the two.                                    *)
(***************************************************************************)
EXTENDS Integers, Sequences, FiniteSets, TLC

VARIABLES
    deploy,     \* which routes + schema are running (fixed by Init)
    samples,    \* the instants at which the clock is observed (fixed by Init)
    emps,       \* the employees that send requests (fixed by Init)
    slots,      \* how many handlers may be suspended at once (fixed by Init)
    clock,      \* the wall clock, seconds of local time
    budget,     \* requests the clients may still send
    store,      \* the Attendance collection: a set of documents
    reqs,       \* request slot -> handler suspended at its await, or Idle
    resp,       \* the response sent by the latest completed handler
    okIn,       \* history: <<employee, date>> -> number of successful check-ins
    okOut       \* history: <<employee, date>> -> number of successful check-outs

conf == <<deploy, samples, emps, slots>>
vars == <<conf, budget, clock, store, reqs, resp, okIn, okOut>>

----------------------------------------------------------------------------
(* Bounds of the model *)

MaxInFlight == 2     \* handlers that may be suspended at once
MaxBreaks == 2       \* breaks per record the model follows
MaxCalls == 5        \* requests sent in a run

Slots == 1..slots

----------------------------------------------------------------------------
(* Dates *)

Hour == 60 * 60
Day == 24 * Hour
Null == 0 - 1        \* an unset Date field (every instant of the model is >= 0)

HMS(h, m, s) == h * Hour + m * 60 + s
SecOfDay(t) == t % Day
getHours(t) == SecOfDay(t) \div Hour
getMinutes(t) == (SecOfDay(t) % Hour) \div 60
\* Date.prototype.setHours(h, m, s, 0): same calendar day, given time of day
setHours(t, h, m, s) == (t - SecOfDay(t)) + HMS(h, m, s)
\* d.setDate(d.getDate() - 1): the same time of day one calendar day earlier
setDatePrev(t) == t - Day

getShiftDateNoon(now) ==
    LET d == IF getHours(now) < 12 THEN setDatePrev(now) ELSE now
    IN  setHours(d, 0, 0, 0)

getShiftDate(now) ==
    LET d == IF getHours(now) < 18 THEN setDatePrev(now) ELSE now
    IN  setHours(d, 0, 0, 0)

\* today = new Date(); today.setHours(0, 0, 0, 0)
today(now) == setHours(now, 0, 0, 0)

IsNight == deploy \in {"night405", "night400"}

resolveDateCalendar(now) == today(now)

resolveDate(now) == IF IsNight THEN getShiftDate(now) ELSE today(now)

----------------------------------------------------------------------------
(* The instants at which the clock is sampled *)

At(d, h, m, s) == d * Day + HMS(h, m, s)

\* night shift, requests one after the other: the check-in windows of the
\* evening of day 0, the end of the shift and the rollover at 18:00 of day 1
NightInstants ==
    { At(0, 18, 0, 0), At(0, 18, 59, 59), At(0, 19, 0, 0), At(0, 19, 5, 59),
      At(0, 19, 6, 0), At(1, 3, 59, 59), At(1, 4, 0, 0), At(1, 17, 59, 59),
      At(1, 18, 0, 0) }

\* night shift, overlapping requests
NightRaceInstants ==
    { At(0, 19, 0, 0), At(0, 19, 6, 0), At(1, 4, 0, 0), At(1, 4, 5, 30) }

\* night shift, requests one after the other: a check-in at 19:00 and the
\* check-out windows of the morning after
NightOutInstants ==
    { At(0, 19, 0, 0), At(0, 23, 0, 0), At(0, 23, 30, 0), At(1, 3, 54, 59),
      At(1, 3, 55, 0), At(1, 4, 5, 0), At(1, 4, 5, 1), At(1, 4, 10, 0),
      At(1, 11, 59, 59), At(1, 12, 0, 0) }

\* night shift, two employees
NightPairInstants == { At(0, 19, 0, 0), At(0, 19, 6, 0), At(1, 4, 5, 30) }

\* day shift, requests one after the other: the check-in windows, the 16:00
\* cutoff and the midnight that ends day 0
DayInstants ==
    { At(0, 6, 55, 0), At(0, 7, 0, 0), At(0, 7, 3, 0), At(0, 7, 5, 0),
      At(0, 7, 5, 30), At(0, 7, 10, 0), At(0, 15, 59, 59), At(0, 16, 0, 0),
      At(0, 16, 1, 0), At(0, 23, 59, 59), At(1, 0, 0, 0) }

\* day shift, overlapping requests
DayRaceInstants ==
    { At(0, 6, 55, 0), At(0, 7, 3, 0), At(0, 7, 10, 0), At(0, 15, 59, 59) }

Dates == { d * Day : d \in (0 - 1)..1 }
Keys == emps \X Dates

SetMin(S) == CHOOSE x \in S : \A y \in S : x <= y

\* the sample that follows instant t (t itself after the last sample)
After(t) ==
    LET after == { u \in samples : u > t }
    IN  IF after = {} THEN t ELSE SetMin(after)

\* a handler completes before the clock has passed the sample that follows
\* its call: no step moves the clock further while it is suspended
Timely(t) == \A s \in Slots : reqs[s].op # "idle" => t <= After(reqs[s].now)

\* the clock values a new request may observe: the present one or a later sample
Later == { t \in samples : t >= clock /\ Timely(t) }
\* the clock value when an await returns: the present one or the next sample
Soon == { t \in {clock, After(clock)} : Timely(t) }

----------------------------------------------------------------------------
(* The Attendance schema *)

StatusEnum ==
    CASE deploy = "day" ->
           {"present", "absent", "late", "half-day", "on-leave", "holiday", "weekend"}
      [] deploy = "night405" ->
           {"present", "absent", "late", "early", "overtime", "clocked-out",
            "early-clockout", "half-day", "on-leave", "holiday", "weekend"}
      [] deploy = "night400" ->
           {"present", "absent", "late", "early", "overtime", "clocked-out",
            "half-day", "on-leave", "holiday", "weekend"}

ReasonEnum == {"washroom", "lunch", "cigarette", "break"}

NoDoc == [id |-> 0]

\* new Attendance({employee, date, checkIn: {time}, status}) with the defaults
newDoc(id, e, date, time, status) ==
    [id |-> id, employee |-> e, date |-> date, checkIn |-> time,
     checkOut |-> Null, status |-> status, workingHours |-> 0, overtime |-> 0,
     breaks |-> << >>, v |-> 0]

RECURSIVE sumDuration(_)
\* breaks.reduce((total, b) => total + (b.duration || 0), 0), in minutes
sumDuration(bs) ==
    IF bs = << >> THEN 0
    ELSE (IF Head(bs).duration = Null THEN 0 ELSE Head(bs).duration)
         + sumDuration(Tail(bs))

Max(a, b) == IF a >= b THEN a ELSE b

\* diffHours - breakHours without the Math.max
workedSecondsNoClamp(doc) ==
    (doc.checkOut - doc.checkIn) - 60 * sumDuration(doc.breaks)

\* Math.max(0, diffHours - breakHours), in seconds
workedSeconds(doc) ==
    Max(0, (doc.checkOut - doc.checkIn) - 60 * sumDuration(doc.breaks))

\* pre('save') of src/src/models/Attendance.js: the fixed 8-hour rule
preSaveDay(doc) ==
    IF doc.checkIn # Null /\ doc.checkOut # Null
    THEN LET w == workedSeconds(doc)
         IN  [doc EXCEPT !.workingHours = w,
                         !.overtime = IF w > 8 * Hour THEN w - 8 * Hour ELSE @]
    ELSE doc

\* pre('save') of part_007 (threshold 04:05) and part_006 (threshold 04:00)
preSaveNight(doc, thresholdMinute) ==
    IF doc.checkIn # Null /\ doc.checkOut # Null
    THEN LET w == workedSeconds(doc)
             overtimeThreshold == setHours(doc.checkOut, 4, thresholdMinute, 0)
         IN  [doc EXCEPT !.workingHours = w,
                         !.overtime =
                             IF doc.checkOut > overtimeThreshold
                                /\ getHours(doc.checkOut) < 12
                             THEN doc.checkOut - overtimeThreshold
                             ELSE 0]
    ELSE doc

\* the hook with the 04:00 boundary, whatever the deployment
preSaveFourAM(doc) == preSaveNight(doc, 0)

preSave(doc) ==
    CASE deploy = "day" -> preSaveDay(doc)
      [] deploy = "night405" -> preSaveNight(doc, 5)
      [] deploy = "night400" -> preSaveNight(doc, 0)

\* validation of the status only
validatesStatusOnly(doc) == doc.status \in StatusEnum

\* the enum validators that run on every save and create
validates(doc) ==
    /\ doc.status \in StatusEnum
    /\ \A i \in 1..Len(doc.breaks) : doc.breaks[i].reason \in ReasonEnum

\* a lookup by date alone
findOneAnyEmployee(e, date) ==
    IF \E r \in store : r.date = date
    THEN CHOOSE r \in store : r.date = date
    ELSE NoDoc

\* a lookup by employee alone
findOneAnyDate(e, date) ==
    IF \E r \in store : r.employee = e
    THEN CHOOSE r \in store : r.employee = e /\ \A r2 \in store : r2.employee = e => r2.date <= r.date
    ELSE NoDoc

\* Attendance.findOne({employee, date})
findOne(e, date) ==
    IF \E r \in store : r.employee = e /\ r.date = date
    THEN CHOOSE r \in store : r.employee = e /\ r.date = date
    ELSE NoDoc

uniqueIndexOff(doc) == TRUE

\* the unique index {employee: 1, date: 1}
uniqueIndexAllows(doc) ==
    ~ \E r \in store : r.employee = doc.employee /\ r.date = doc.date

\* a create that replaces the record of the same employee and date
createOrReplace(e, date, time, status) ==
    LET doc == preSave(newDoc(Cardinality(store) + 1, e, date, time, status))
    IN  IF ~ validates(doc)
        THEN [result |-> "ValidationError", store |-> store]
        ELSE [result |-> "ok",
              store |-> { r \in store : ~ (r.employee = e /\ r.date = date) } \cup {doc}]

\* Attendance.create(...): hooks and validation, then the insert
create(e, date, time, status) ==
    LET doc == preSave(newDoc(Cardinality(store) + 1, e, date, time, status))
    IN  IF ~ validates(doc)
        THEN [result |-> "ValidationError", store |-> store]
        ELSE IF ~ uniqueIndexAllows(doc)
        THEN [result |-> "DuplicateKey", store |-> store]
        ELSE [result |-> "ok", store |-> store \cup {doc}]

\* the update that doc.save() sends for a document loaded as `loaded` and
\* changed in memory to `doc`: $set of the changed paths, $push of the
\* appended breaks (which increments __v), and, when an element of the breaks
\* array was changed in place, the condition that __v is still the loaded one
applyUpdate(stored, loaded, doc) ==
    LET n == Len(loaded.breaks)
        pushed == SubSeq(doc.breaks, n + 1, Len(doc.breaks))
        inPlace == [i \in 1..Len(stored.breaks) |->
                       IF i <= n /\ doc.breaks[i] # loaded.breaks[i]
                       THEN doc.breaks[i] ELSE stored.breaks[i]]
    IN  [stored EXCEPT
            !.checkIn = IF doc.checkIn # loaded.checkIn THEN doc.checkIn ELSE @,
            !.checkOut = IF doc.checkOut # loaded.checkOut THEN doc.checkOut ELSE @,
            !.status = IF doc.status # loaded.status THEN doc.status ELSE @,
            !.workingHours =
                IF doc.workingHours # loaded.workingHours THEN doc.workingHours ELSE @,
            !.overtime = IF doc.overtime # loaded.overtime THEN doc.overtime ELSE @,
            !.breaks = inPlace \o pushed,
            !.v = IF pushed # << >> THEN @ + 1 ELSE @]

\* attendance.save() of a loaded document
save(loaded, changed) ==
    LET doc == preSave(changed)
        stored == CHOOSE r \in store : r.id = loaded.id
        positional == \E i \in 1..Len(loaded.breaks) : doc.breaks[i] # loaded.breaks[i]
    IN  IF ~ validates(doc)
        THEN [result |-> "ValidationError", store |-> store]
        ELSE IF positional /\ stored.v # loaded.v
        THEN [result |-> "VersionError", store |-> store]
        ELSE [result |-> "ok",
              store |-> (store \ {stored}) \cup {applyUpdate(stored, loaded, doc)}]

----------------------------------------------------------------------------
(* Requests and responses *)

Idle == [op |-> "idle"]
NoData == [none |-> TRUE]
NoResp == [op |-> "none", emp |-> 0, now |-> Null, date |-> Null,
           result |-> "none", looked |-> FALSE, data |-> NoData]

\* a handler suspended at its await of findOne, with what it has computed
Suspended(op, e, now, date, doc, reason) ==
    [op |-> op, emp |-> e, now |-> now, date |-> date, doc |-> doc, reason |-> reason]

\* res.json / res.status(..).json: the operation, the instant the handler
\* decided with, the date it resolved, the outcome, whether it had looked up
\* the record, and the payload of GET /today
Response(op, e, now, date, result, looked) ==
    [op |-> op, emp |-> e, now |-> now, date |-> date, result |-> result,
     looked |-> looked, data |-> NoData]

CanCall == budget > 0
Spend == budget' = budget - 1

\* requests take the lowest free slot
FreeSlot(s) == reqs[s] = Idle /\ \A s2 \in Slots : s2 < s => reqs[s2] # Idle

Bump(f, k) == [f EXCEPT ![k] = @ + 1]

----------------------------------------------------------------------------
(* POST /check-in *)

deadZoneFrom5(now) == getHours(now) > 4 /\ getHours(now) < 18

\* night shift: the dead zone 04:00 - 17:59
deadZone(now) == getHours(now) >= 4 /\ getHours(now) < 18

\* day shift: checkInTime >= cutoffTime (16:00 of the same day)
afterCutoff(checkInTime) == checkInTime >= setHours(checkInTime, 16, 0, 0)

nightCheckInStatusBefore5(now) ==
    IF getHours(now) >= 18 /\ getHours(now) < 19 THEN "early"
    ELSE IF getHours(now) = 19 /\ getMinutes(now) < 5 THEN "present"
    ELSE "late"

nightCheckInStatus(now) ==
    IF getHours(now) >= 18 /\ getHours(now) < 19 THEN "early"
    ELSE IF getHours(now) = 19 /\ getMinutes(now) <= 5 THEN "present"
    ELSE "late"

dayCheckInStatus(checkInTime) ==
    IF checkInTime < setHours(checkInTime, 7, 0, 0) THEN "early"
    ELSE IF checkInTime <= setHours(checkInTime, 7, 5, 0) THEN "present"
    ELSE "late"

\* a handler that never finds the employee checked in
hasCheckInNever(attendance) == FALSE

\* attendance && attendance.checkIn?.time
hasCheckIn(attendance) == attendance # NoDoc /\ attendance.checkIn # Null

\* the handler up to the await of findOne
CheckInCall(s, e, t) ==
    /\ CanCall /\ Spend
    /\ FreeSlot(s)
    /\ clock' = t
    /\ IF IsNight /\ deadZone(t)
       THEN /\ resp' = Response("checkin", e, t, Null, "OutsideWindow", FALSE)
            /\ UNCHANGED reqs
       ELSE /\ reqs' = [reqs EXCEPT ![s] =
                          Suspended("checkin", e, t, resolveDate(t),
                                    findOne(e, resolveDate(t)), "")]
            /\ resp' = NoResp
    /\ UNCHANGED <<conf, store, okIn, okOut>>

\* the write of check-in: save of the found document, or create
checkInWrite(r, time, status) ==
    IF r.doc # NoDoc
    THEN save(r.doc, [r.doc EXCEPT !.checkIn = time, !.status = status])
    ELSE create(r.emp, r.date, time, status)

\* the handler after the await: night shift stamps the `now` of the call,
\* day shift reads the clock again (checkInTime = new Date())
CheckInDone(s, t) ==
    /\ reqs[s].op = "checkin"
    /\ UNCHANGED budget
    /\ clock' = t
    /\ reqs' = [reqs EXCEPT ![s] = Idle]
    /\ LET r == reqs[s]
           time == IF IsNight THEN r.now ELSE t
           status == IF IsNight THEN nightCheckInStatus(time)
                     ELSE dayCheckInStatus(time)
           out == checkInWrite(r, time, status)
       IN  IF hasCheckIn(r.doc)
           THEN /\ resp' = Response("checkin", r.emp, time, r.date, "AlreadyCheckedIn", TRUE)
                /\ UNCHANGED <<store, okIn>>
           ELSE IF ~ IsNight /\ afterCutoff(time)
           THEN /\ resp' = Response("checkin", r.emp, time, r.date, "OutsideWindow", TRUE)
                /\ UNCHANGED <<store, okIn>>
           ELSE /\ resp' = Response("checkin", r.emp, time, r.date, out.result, TRUE)
                /\ store' = out.store
                /\ okIn' = IF out.result = "ok" THEN Bump(okIn, <<r.emp, r.date>>)
                           ELSE okIn
    /\ UNCHANGED <<conf, okOut>>

----------------------------------------------------------------------------
(* POST /check-out *)

\* the check-out rules without the grace window 03:55 - 03:59
nightCheckOutStatusNoGrace(checkOutTime, prior) ==
    IF getHours(checkOutTime) < 12
    THEN IF checkOutTime < setHours(checkOutTime, 4, 0, 0) THEN "early-clockout"
         ELSE IF checkOutTime <= setHours(checkOutTime, 4, 5, 0) THEN "clocked-out"
         ELSE "overtime"
    ELSE prior

nightCheckOutStatus(checkOutTime, prior) ==
    IF getHours(checkOutTime) < 12
    THEN IF checkOutTime < setHours(checkOutTime, 3, 55, 0) THEN "early-clockout"
         ELSE IF checkOutTime >= setHours(checkOutTime, 4, 0, 0)
                 /\ checkOutTime <= setHours(checkOutTime, 4, 5, 0) THEN "clocked-out"
         ELSE IF checkOutTime > setHours(checkOutTime, 4, 5, 0) THEN "overtime"
         ELSE "clocked-out"
    ELSE prior

dayCheckOutStatus(checkOutTime, prior) ==
    IF checkOutTime > setHours(checkOutTime, 16, 5, 0) THEN "overtime"
    ELSE IF checkOutTime >= setHours(checkOutTime, 16, 0, 0)
            /\ checkOutTime <= setHours(checkOutTime, 16, 5, 0) THEN "clocked-out"
    ELSE prior

\* a handler that never finds a check-out on the record
hasCheckOutNever(attendance) == FALSE

\* attendance.checkOut?.time
hasCheckOut(attendance) == attendance.checkOut # Null

CheckOutCall(s, e, t) ==
    /\ CanCall /\ Spend
    /\ FreeSlot(s)
    /\ clock' = t
    /\ reqs' = [reqs EXCEPT ![s] =
                  Suspended("checkout", e, t, resolveDate(t),
                            findOne(e, resolveDate(t)), "")]
    /\ resp' = NoResp
    /\ UNCHANGED <<conf, store, okIn, okOut>>

\* night shift stamps the `now` of the call, day shift reads the clock again
CheckOutDone(s, t) ==
    /\ reqs[s].op = "checkout"
    /\ UNCHANGED budget
    /\ clock' = t
    /\ reqs' = [reqs EXCEPT ![s] = Idle]
    /\ LET r == reqs[s]
           time == IF IsNight THEN r.now ELSE t
       IN  IF r.doc = NoDoc \/ r.doc.checkIn = Null
           THEN /\ resp' = Response("checkout", r.emp, time, r.date, "NotCheckedIn", TRUE)
                /\ UNCHANGED <<store, okOut>>
           ELSE IF hasCheckOut(r.doc)
           THEN /\ resp' = Response("checkout", r.emp, time, r.date, "AlreadyCheckedOut", TRUE)
                /\ UNCHANGED <<store, okOut>>
           ELSE LET status == IF IsNight THEN nightCheckOutStatus(time, r.doc.status)
                              ELSE dayCheckOutStatus(time, r.doc.status)
                    out == save(r.doc, [r.doc EXCEPT !.checkOut = time,
                                                     !.status = status])
                IN  /\ resp' = Response("checkout", r.emp, time, r.date, out.result, TRUE)
                    /\ store' = out.store
                    /\ okOut' = IF out.result = "ok" THEN Bump(okOut, <<r.emp, r.date>>)
                                ELSE okOut
    /\ UNCHANGED <<conf, okIn>>

----------------------------------------------------------------------------
(* POST /break/start and POST /break/end *)

\* req.body.reason as sent by the client; "" stands for a request without one
ReasonInputs == {"", "lunch", "nap"}

\* a handler that never finds an open break
hasOpenBreakNever(doc) == FALSE

\* attendance.breaks?.find(b => !b.endTime)
hasOpenBreak(doc) == \E i \in 1..Len(doc.breaks) : doc.breaks[i].endTime = Null

\* attendance.breaks.findIndex(b => !b.endTime)
activeBreakIndex(doc) ==
    SetMin({ i \in 1..Len(doc.breaks) : doc.breaks[i].endTime = Null })

\* a push that stores req.body.reason as it came
newBreakNoDefault(startTime, reason) ==
    [startTime |-> startTime, endTime |-> Null, duration |-> Null, reason |-> reason]

\* attendance.breaks.push({startTime: breakStartTime, reason: reason || 'break'})
newBreak(startTime, reason) ==
    [startTime |-> startTime, endTime |-> Null, duration |-> Null,
     reason |-> IF reason = "" THEN "break" ELSE reason]

\* the request would append a break to a record that already has MaxBreaks
Full(doc) ==
    /\ doc # NoDoc /\ doc.checkIn # Null /\ doc.checkOut = Null
    /\ ~ hasOpenBreak(doc)
    /\ Len(doc.breaks) >= MaxBreaks

BreakStartCall(s, e, t, reason) ==
    /\ CanCall /\ Spend
    /\ FreeSlot(s)
    /\ ~ Full(findOne(e, resolveDate(t)))
    /\ clock' = t
    /\ reqs' = [reqs EXCEPT ![s] =
                  Suspended("breakstart", e, t, resolveDate(t),
                            findOne(e, resolveDate(t)), reason)]
    /\ resp' = NoResp
    /\ UNCHANGED <<conf, store, okIn, okOut>>

\* breakStartTime = new Date() is read after the await, in both routes
BreakStartDone(s, t) ==
    /\ reqs[s].op = "breakstart"
    /\ UNCHANGED budget
    /\ clock' = t
    /\ reqs' = [reqs EXCEPT ![s] = Idle]
    /\ LET r == reqs[s]
       IN  IF r.doc = NoDoc \/ r.doc.checkIn = Null
           THEN /\ resp' = Response("breakstart", r.emp, t, r.date, "NotCheckedIn", TRUE)
                /\ UNCHANGED store
           ELSE IF hasCheckOut(r.doc)
           THEN /\ resp' = Response("breakstart", r.emp, t, r.date, "AlreadyCheckedOut", TRUE)
                /\ UNCHANGED store
           ELSE IF hasOpenBreak(r.doc)
           THEN /\ resp' = Response("breakstart", r.emp, t, r.date, "BreakAlreadyOpen", TRUE)
                /\ UNCHANGED store
           ELSE LET out == save(r.doc, [r.doc EXCEPT !.breaks =
                                            Append(@, newBreak(t, r.reason))])
                IN  /\ resp' = Response("breakstart", r.emp, t, r.date, out.result, TRUE)
                    /\ store' = out.store
    /\ UNCHANGED <<conf, okIn, okOut>>

BreakEndCall(s, e, t) ==
    /\ CanCall /\ Spend
    /\ FreeSlot(s)
    /\ clock' = t
    /\ reqs' = [reqs EXCEPT ![s] =
                  Suspended("breakend", e, t, resolveDate(t),
                            findOne(e, resolveDate(t)), "")]
    /\ resp' = NoResp
    /\ UNCHANGED <<conf, store, okIn, okOut>>

\* the duration rounded up to the next minute
durationMinutesCeil(startTime, endTime) == (endTime - startTime + 59) \div 60

\* Math.floor(durationMs / (1000 * 60))
durationMinutes(startTime, endTime) == (endTime - startTime) \div 60

\* breakEndTime = new Date() is read after the await, in both routes
BreakEndDone(s, t) ==
    /\ reqs[s].op = "breakend"
    /\ UNCHANGED budget
    /\ clock' = t
    /\ reqs' = [reqs EXCEPT ![s] = Idle]
    /\ LET r == reqs[s]
       IN  IF r.doc = NoDoc \/ r.doc.checkIn = Null
           THEN /\ resp' = Response("breakend", r.emp, t, r.date, "NotCheckedIn", TRUE)
                /\ UNCHANGED store
           ELSE IF ~ hasOpenBreak(r.doc)
           THEN /\ resp' = Response("breakend", r.emp, t, r.date, "NoOpenBreak", TRUE)
                /\ UNCHANGED store
           ELSE LET i == activeBreakIndex(r.doc)
                    b == r.doc.breaks[i]
                    out == save(r.doc,
                                [r.doc EXCEPT !.breaks[i] =
                                    [b EXCEPT !.endTime = t,
                                              !.duration = durationMinutes(b.startTime, t)]])
                IN  /\ resp' = Response("breakend", r.emp, t, r.date, out.result, TRUE)
                    /\ store' = out.store
    /\ UNCHANGED <<conf, okIn, okOut>>

----------------------------------------------------------------------------
(* GET /today *)

RECURSIVE breakSeconds(_, _)
\* the reduce of GET /today: closed breaks by their duration, the open break
\* by its time up to now
breakSeconds(bs, now) ==
    IF bs = << >> THEN 0
    ELSE (IF Head(bs).endTime # Null
          THEN 60 * (IF Head(bs).duration = Null THEN 0 ELSE Head(bs).duration)
          ELSE now - Head(bs).startTime)
         + breakSeconds(Tail(bs), now)

\* seconds of work, live when checked in and not out, else the stored value
currentWorkingHours(doc, now) ==
    IF doc = NoDoc THEN 0
    ELSE IF doc.checkIn # Null /\ doc.checkOut = Null
    THEN Max(0, (now - doc.checkIn) - breakSeconds(doc.breaks, now))
    ELSE doc.workingHours

\* parseFloat(x.toFixed(2)) of x hours, as hundredths of an hour (36 s each)
toFixed2(seconds) == (2 * seconds + 36) \div 72

\* the read-only handler; nothing it does can interleave with an effect
Today(e, t) ==
    /\ CanCall /\ Spend
    /\ clock' = t
    /\ LET doc == findOne(e, resolveDate(t))
       IN  resp' = [Response("today", e, t, resolveDate(t), "ok", TRUE)
                    EXCEPT !.data =
                      [attendance |-> doc,
                       isCheckedIn |-> doc # NoDoc /\ doc.checkIn # Null,
                       isCheckedOut |-> doc # NoDoc /\ doc.checkOut # Null,
                       isOnBreak |-> doc # NoDoc /\ hasOpenBreak(doc),
                       currentWorkingHours |-> toFixed2(currentWorkingHours(doc, t))]]
    /\ UNCHANGED <<conf, store, reqs, okIn, okOut>>

----------------------------------------------------------------------------
(* The system *)

InitWith(d, ins, es, n, b) ==
    /\ deploy = d
    /\ slots = n
    /\ samples = ins
    /\ emps = es
    /\ clock = SetMin(ins)
    /\ budget = b
    /\ store = {}
    /\ reqs = [s \in Slots |-> Idle]
    /\ resp = NoResp
    /\ okIn = [k \in es \X Dates |-> 0]
    /\ okOut = [k \in es \X Dates |-> 0]

Next ==
    \/ \E s \in Slots, e \in emps, t \in Later : CheckInCall(s, e, t)
    \/ \E s \in Slots, t \in Soon : CheckInDone(s, t)
    \/ \E s \in Slots, e \in emps, t \in Later : CheckOutCall(s, e, t)
    \/ \E s \in Slots, t \in Soon : CheckOutDone(s, t)
    \/ \E s \in Slots, e \in emps, t \in Later, reason \in ReasonInputs :
          BreakStartCall(s, e, t, reason)
    \/ \E s \in Slots, t \in Soon : BreakStartDone(s, t)
    \/ \E s \in Slots, e \in emps, t \in Later : BreakEndCall(s, e, t)
    \/ \E s \in Slots, t \in Soon : BreakEndDone(s, t)
    \/ \E e \in emps, t \in Later : Today(e, t)

\* the night-shift routes with the schema of part_007, requests one after
\* the other
Init == InitWith("night405", NightInstants, {1}, 1, MaxCalls)
Spec == Init /\ [][Next]_vars

\* the same, with overlapping requests
InitRace == InitWith("night405", NightRaceInstants, {1}, MaxInFlight, MaxCalls - 1)
SpecRace == InitRace /\ [][Next]_vars

\* the night-shift routes with two employees and overlapping requests
InitPair == InitWith("night405", NightPairInstants, {1, 2}, MaxInFlight, MaxCalls - 2)
SpecPair == InitPair /\ [][Next]_vars

\* the night-shift routes around the check-out windows
InitOut == InitWith("night405", NightOutInstants, {1}, 1, MaxCalls)
SpecOut == InitOut /\ [][Next]_vars

\* the day-shift routes with the schema of src/src/models/Attendance.js
InitDay == InitWith("day", DayInstants, {1}, 1, MaxCalls)
SpecDay == InitDay /\ [][Next]_vars

\* either of the two, requests one after the other
InitBoth == Init \/ InitDay
SpecBoth == InitBoth /\ [][Next]_vars

\* the day-shift routes with overlapping requests
InitDayRace == InitWith("day", DayRaceInstants, {1}, MaxInFlight, MaxCalls - 1)
SpecDayRace == InitDayRace /\ [][Next]_vars

----------------------------------------------------------------------------
(* Properties *)

InFlight == { reqs[s] : s \in Slots } \ {Idle}

RecordsOf(S, e, d) == { r \in S : r.employee = e /\ r.date = d }
CheckedIn(S, e, d) == \E r \in RecordsOf(S, e, d) : r.checkIn # Null

\* C1: under NightShift the shift-date of `now` is midnight of the calendar
\* date of `now`, minus one day when the local hour of `now` is below 18;
\* 2024-03-10T02:00 gives 03-09 and 2024-03-10T19:00 gives 03-10 (days 10, 9).
ShiftDateByHour(now) ==
    ((now \div Day) - (IF SecOfDay(now) < 18 * Hour THEN 1 ELSE 0)) * Day
C1_ShiftDate ==
    /\ \A r \in InFlight : r.date = ShiftDateByHour(r.now)
    /\ resp.op = "today" => resp.date = ShiftDateByHour(resp.now)
    /\ getShiftDate(At(10, 2, 0, 0)) = At(9, 0, 0, 0)
    /\ getShiftDate(At(10, 19, 0, 0)) = At(10, 0, 0, 0)
C1_Witness ==
    \E r \in InFlight :
        /\ r.op = "checkout" /\ r.now = At(1, 3, 59, 59)
        /\ r.date = At(0, 0, 0, 0) /\ r.doc # NoDoc

\* C2: under NightShift a check-in accepted in the shift that begins at 18:00
\* of day D is stored under date D, and every request (check-out, break-start,
\* break-end, shift status) issued before 18:00 of day D+1 resolves to date D
\* and reads only the record of date D.
ShiftStartDay(now) == ((now - 18 * Hour) \div Day) * Day
C2_OneRecordPerShift ==
    /\ \A r \in store :
           r.checkIn # Null =>
               /\ r.checkIn >= r.date + 18 * Hour
               /\ r.checkIn < r.date + Day + 4 * Hour
    /\ \A r \in InFlight :
           /\ r.date = ShiftStartDay(r.now)
           /\ r.doc # NoDoc => r.doc.date = ShiftStartDay(r.now) /\ r.doc.employee = r.emp
    /\ resp.op = "today" =>
           /\ resp.date = ShiftStartDay(resp.now)
           /\ resp.data.attendance # NoDoc =>
                  resp.data.attendance.date = ShiftStartDay(resp.now)
C2_Witness ==
    \E r \in InFlight :
        /\ r.op = "breakend" /\ r.now = At(1, 17, 59, 59)
        /\ r.doc # NoDoc /\ r.doc.date = At(0, 0, 0, 0)
        /\ r.doc.checkIn = At(0, 18, 0, 0) /\ hasOpenBreak(r.doc)

\* the date a check-in response is about
CheckInDate(r) == IF r.date = Null THEN resolveDate(r.now) ELSE r.date
\* a time at which the shift model permits a check-in
Permitted(now) ==
    IF IsNight THEN SecOfDay(now) < 4 * Hour \/ SecOfDay(now) >= 18 * Hour
    ELSE SecOfDay(now) < 16 * Hour

C4_OneWinner ==
    /\ \A k \in Keys :
           /\ okIn[k] <= 1
           /\ Cardinality(RecordsOf(store, k[1], k[2])) <= 1
           /\ okIn[k] = 1 => Cardinality(RecordsOf(store, k[1], k[2])) = 1
    /\ (resp.op = "checkin" /\ resp.result \in {"ok", "DuplicateKey"}) =>
           /\ Cardinality(RecordsOf(store, resp.emp, resp.date)) = 1
           /\ okIn[<<resp.emp, resp.date>>] = 1
    /\ (resp.op = "checkin" /\ resp.result = "ok") =>
           \A r \in RecordsOf(store, resp.emp, resp.date) : r.checkIn = resp.now
C4_Witness ==
    /\ resp.op = "checkin" /\ resp.result = "DuplicateKey"
    /\ Cardinality(store) = 1
    /\ okIn[<<resp.emp, resp.date>>] = 1

\* C5: a check-in that looked up the record and is refused because the
\* employee is checked in for that shift-date, the loser of the create race
\* included, is answered with the already-checked-in rejection.
C5_RaceLoserRejected ==
    (/\ resp.op = "checkin" /\ resp.looked /\ resp.result # "ok"
     /\ CheckedIn(store, resp.emp, resp.date))
        => resp.result = "AlreadyCheckedIn"

\* C6: at most one check-out per employee and shift-date returns success,
\* and a checkOut.time and the status stored with it are never overwritten.
C6_CheckOutOnce ==
    [][ /\ \A k \in Keys : okOut'[k] <= 1
        /\ \A r \in store :
             r.checkOut # Null =>
                 \E r2 \in store' :
                     r2.id = r.id /\ r2.checkOut = r.checkOut /\ r2.status = r.status
      ]_vars

\* C7: a NightShift check-in whose local hour is in [4, 18) is rejected as
\* outside the window before any record lookup; it suspends no handler and
\* leaves the store as it was.
C7_DeadZone ==
    [][ (/\ resp'.op = "checkin"
         /\ SecOfDay(resp'.now) >= 4 * Hour /\ SecOfDay(resp'.now) < 18 * Hour)
        => /\ resp'.result = "OutsideWindow"
           /\ ~ resp'.looked
           /\ store' = store
           /\ reqs' = reqs
      ]_vars
C7_Witness ==
    /\ resp.op = "checkin" /\ resp.result = "OutsideWindow"
    /\ resp.now = At(1, 4, 0, 0)
    /\ \E r \in store : r.date = At(0, 0, 0, 0) /\ r.checkOut = Null

\* C8: a NightShift check-in is stored as early from 18:00 to 18:59, present
\* from 19:00 to 19:05 and late at every other permitted time (19:06 - 23:59
\* and 00:00 - 03:59); the status stays so until the check-out.
NightExpected(t) ==
    IF SecOfDay(t) >= 18 * Hour /\ SecOfDay(t) < 19 * Hour THEN "early"
    ELSE IF SecOfDay(t) >= 19 * Hour /\ SecOfDay(t) < 19 * Hour + 6 * 60 THEN "present"
    ELSE "late"
C8_NightCheckInStatus ==
    /\ \A r \in store :
           (r.checkIn # Null /\ r.checkOut = Null) => r.status = NightExpected(r.checkIn)
    /\ (resp.op = "checkin" /\ resp.result = "ok") =>
           \E r \in store : r.checkIn = resp.now /\ r.status = NightExpected(resp.now)
C8_Witness ==
    \E r1 \in store, r2 \in store :
        /\ r1.checkIn = At(1, 3, 59, 59) /\ r1.status = "late"
        /\ r2.checkIn = At(1, 18, 0, 0) /\ r2.status = "early"

\* C9: a DayShift check-in at a permitted time by an employee not yet checked
\* in is stored with status early before 07:00, present from 07:00 to 07:05
\* and late after 07:05.
DayExpected(t) ==
    IF SecOfDay(t) < 7 * Hour THEN "early"
    ELSE IF SecOfDay(t) <= 7 * Hour + 5 * 60 THEN "present"
    ELSE "late"
C9_DayCheckInStatus ==
    (resp.op = "checkin" /\ resp.result \notin {"AlreadyCheckedIn", "OutsideWindow"}) =>
        \E r \in RecordsOf(store, resp.emp, resp.date) :
            r.checkIn = resp.now /\ r.status = DayExpected(resp.now)

\* C10: a DayShift check-in at or after 16:00 is rejected and leaves the store
\* as it was; one before 16:00 by an employee with no check-in that day is
\* accepted.
C10_DayCutoff ==
    [][ resp'.op = "checkin" =>
            IF SecOfDay(resp'.now) >= 16 * Hour
            THEN resp'.result # "ok" /\ store' = store
            ELSE ~ CheckedIn(store, resp'.emp, resp'.date) => resp'.result = "ok"
      ]_vars

\* C11: a check-out is rejected as not-checked-in when the store holds no
\* record with a check-in for the employee and the resolved shift-date, and as
\* already-checked-out when that record has checkOut.time; either rejection
\* leaves the store as it was; a record with checkOut.time has checkIn.time.
C11_CheckOutRejections ==
    [][ /\ resp'.op = "checkout" =>
             IF ~ CheckedIn(store, resp'.emp, resp'.date)
             THEN resp'.result = "NotCheckedIn" /\ store' = store
             ELSE (\E r \in RecordsOf(store, resp'.emp, resp'.date) : r.checkOut # Null)
                      => (resp'.result = "AlreadyCheckedOut" /\ store' = store)
        /\ \A r \in store' : r.checkOut # Null => r.checkIn # Null
      ]_vars
C11_Witness ==
    /\ resp.op = "checkout" /\ resp.result = "AlreadyCheckedOut"
    /\ \E r \in RecordsOf(store, resp.emp, resp.date) :
           r.checkOut # Null /\ r.checkOut < resp.now

\* the check-out responses that passed the two precondition checks
AcceptedCheckOut(r) ==
    r.op = "checkout" /\ r.result \notin {"NotCheckedIn", "AlreadyCheckedOut"}

\* the record of store S that a check-out answered by r has stamped, with the
\* status it is expected to carry
CheckOutStored(S, r, status) ==
    \E r2 \in RecordsOf(S, r.emp, r.date) : r2.checkOut = r.now /\ r2.status = status

\* C12: a NightShift check-out accepted at local time t stores the status
\* early-clockout when t < 03:55, clocked-out when 03:55 <= t <= 04:05,
\* overtime when 04:05 < t < 12:00, and leaves the status of the record as it
\* was when t is at or after 12:00.
NightOutExpected(t, prior) ==
    IF SecOfDay(t) < HMS(3, 55, 0) THEN "early-clockout"
    ELSE IF SecOfDay(t) <= HMS(4, 5, 0) THEN "clocked-out"
    ELSE IF SecOfDay(t) < HMS(12, 0, 0) THEN "overtime"
    ELSE prior
C12_NightCheckOutStatus ==
    [][ AcceptedCheckOut(resp') =>
            \E r \in RecordsOf(store, resp'.emp, resp'.date) :
                CheckOutStored(store', resp', NightOutExpected(resp'.now, r.status))
      ]_vars
C12_Witness ==
    /\ resp.op = "checkout" /\ resp.result = "ok" /\ resp.now = At(1, 3, 55, 0)
    /\ \E r \in store :
           /\ r.checkIn = At(0, 19, 0, 0) /\ r.checkOut = At(1, 3, 55, 0)
           /\ r.status = "clocked-out"

\* C13: a DayShift check-out accepted at local time t stores the status
\* overtime when t > 16:05, clocked-out when 16:00 <= t <= 16:05, and leaves
\* the check-in status of the record as it was when t < 16:00.
DayOutExpected(t, prior) ==
    IF SecOfDay(t) > HMS(16, 5, 0) THEN "overtime"
    ELSE IF SecOfDay(t) >= HMS(16, 0, 0) THEN "clocked-out"
    ELSE prior
C13_DayCheckOutStatus ==
    [][ AcceptedCheckOut(resp') =>
            \E r \in RecordsOf(store, resp'.emp, resp'.date) :
                CheckOutStored(store', resp', DayOutExpected(resp'.now, r.status))
      ]_vars

OpenBreaks(r) == { i \in 1..Len(r.breaks) : r.breaks[i].endTime = Null }

\* C14: with requests that do not overlap, every stored record has at most
\* one break without endTime.
C14_OneOpenBreak ==
    \A r \in store : Cardinality(OpenBreaks(r)) <= 1
C14_Witness ==
    \E r \in store :
        /\ Len(r.breaks) = 2
        /\ r.breaks[1].endTime # Null /\ r.breaks[2].endTime = Null
        /\ resp.op = "breakstart" /\ resp.result = "BreakAlreadyOpen"

\* the handler of operation op that answers in this step
Completes(s, op) == reqs[s].op = op /\ reqs'[s] = Idle

\* the reasons of the fixed vocabulary, and "" for a request without one
ValidReason(reason) == reason \in {"", "washroom", "lunch", "cigarette", "break"}

\* C15: a break-start is rejected, the store left as it was, when the record
\* of the resolved shift-date does not exist or has no check-in, when it has a
\* check-out, and when it has a break without endTime; otherwise (the reason
\* being one of the vocabulary, or absent) it succeeds and appends exactly
\* one break {startTime: now, reason} without endTime, every earlier break
\* and every other record staying as they were.
C15_BreakStart ==
    [][ \A s \in Slots : Completes(s, "breakstart") =>
          LET q == reqs[s]
          IN  IF ~ CheckedIn(store, q.emp, q.date)
              THEN resp'.result = "NotCheckedIn" /\ store' = store
              ELSE \A r \in RecordsOf(store, q.emp, q.date) :
                     IF r.checkOut # Null
                     THEN resp'.result = "AlreadyCheckedOut" /\ store' = store
                     ELSE IF OpenBreaks(r) # {}
                     THEN resp'.result = "BreakAlreadyOpen" /\ store' = store
                     ELSE ValidReason(q.reason) =>
                            /\ resp'.result = "ok"
                            /\ store \ {r} \subseteq store'
                            /\ Cardinality(store') = Cardinality(store)
                            /\ \E r2 \in store' :
                                  /\ r2.id = r.id
                                  /\ r2.checkIn = r.checkIn /\ r2.checkOut = r.checkOut
                                  /\ r2.status = r.status
                                  /\ r2.breaks = Append(r.breaks,
                                        [startTime |-> resp'.now, endTime |-> Null,
                                         duration |-> Null,
                                         reason |-> IF q.reason = "" THEN "break"
                                                    ELSE q.reason])
      ]_vars
C15_Witness ==
    /\ resp.op = "breakstart" /\ resp.result = "ok"
    /\ \E r \in RecordsOf(store, resp.emp, resp.date) :
           /\ Len(r.breaks) = 2
           /\ r.breaks[1].endTime # Null
           /\ r.breaks[2].startTime = resp.now /\ r.breaks[2].endTime = Null
           /\ r.breaks[2].reason = "break"

\* C16: a break-end for an employee who has no open break in the record of
\* the resolved shift-date, the employee who has no record or no check-in
\* included, is answered with the no-open-break error and leaves the store as
\* it was.
C16_BreakEndNoOpenBreak ==
    [][ \A s \in Slots : Completes(s, "breakend") =>
          LET q == reqs[s]
          IN  (\A r \in RecordsOf(store, q.emp, q.date) : OpenBreaks(r) = {})
                  => (resp'.result = "NoOpenBreak" /\ store' = store)
      ]_vars

\* C17: a successful break-end gives the open break endTime = now and
\* duration = floor((endTime - startTime) / 60) minutes, which is not
\* negative; the number of breaks, the startTime and reason of that break and
\* every other break stay as they were.
C17_BreakEnd ==
    [][ \A s \in Slots : (Completes(s, "breakend") /\ resp'.result = "ok") =>
          LET q == reqs[s]
          IN  \A r \in RecordsOf(store, q.emp, q.date) :
                \E r2 \in store', i \in OpenBreaks(r) :
                    /\ r2.id = r.id
                    /\ Len(r2.breaks) = Len(r.breaks)
                    /\ \A j \in 1..Len(r.breaks) : j # i => r2.breaks[j] = r.breaks[j]
                    /\ r2.breaks[i].startTime = r.breaks[i].startTime
                    /\ r2.breaks[i].reason = r.breaks[i].reason
                    /\ r2.breaks[i].endTime = resp'.now
                    /\ r2.breaks[i].duration >= 0
                    /\ 60 * r2.breaks[i].duration <= resp'.now - r.breaks[i].startTime
                    /\ 60 * (r2.breaks[i].duration + 1) > resp'.now - r.breaks[i].startTime
      ]_vars
C17_Witness ==
    /\ resp.op = "breakend" /\ resp.result = "ok"
    /\ \E r \in RecordsOf(store, resp.emp, resp.date) :
           /\ Len(r.breaks) = 2
           /\ r.breaks[1].endTime < resp.now
           /\ r.breaks[2].endTime = resp.now
           /\ r.breaks[2].duration > 0
           /\ 60 * r.breaks[2].duration < resp.now - r.breaks[2].startTime

RECURSIVE ClosedBreakMinutes(_)
\* the minutes of the breaks that have an endTime; an open break counts 0
ClosedBreakMinutes(bs) ==
    IF bs = << >> THEN 0
    ELSE (IF Head(bs).endTime # Null THEN Head(bs).duration ELSE 0)
         + ClosedBreakMinutes(Tail(bs))

Complete(r) == r.checkIn # Null /\ r.checkOut # Null

\* C18: in every state a record with checkIn.time and checkOut.time has
\* workingHours = max(0, (checkOut.time - checkIn.time) - the durations of
\* its closed breaks), never negative, whatever was saved last (here in
\* seconds).
C18_WorkingHours ==
    \A r \in store :
        Complete(r) =>
            LET net == (r.checkOut - r.checkIn) - 60 * ClosedBreakMinutes(r.breaks)
            IN  /\ r.workingHours = (IF net > 0 THEN net ELSE 0)
                /\ r.workingHours >= 0
C18_Witness ==
    \E r \in store :
        /\ Complete(r) /\ Len(r.breaks) = 1
        /\ r.breaks[1].endTime # Null /\ r.breaks[1].endTime > r.checkOut
        /\ 60 * r.breaks[1].duration > r.checkOut - r.checkIn
        /\ r.workingHours = 0
        /\ resp.op = "breakend" /\ resp.result = "ok"

\* C19: under the fixed 8-hour rule a record with checkIn.time and
\* checkOut.time has overtime = max(0, workingHours - 8 hours) after every
\* save, a break-end after the check-out included.
C19_OvertimeEightHours ==
    \A r \in store :
        Complete(r) =>
            r.overtime = (IF r.workingHours > 8 * Hour THEN r.workingHours - 8 * Hour
                          ELSE 0)

\* C20: under the night-shift rule with the 04:05 boundary a record with
\* checkIn.time and checkOut.time has overtime = checkOut.time - 04:05 of the
\* check-out's calendar day when the check-out is after 04:05 and before
\* noon, and 0 otherwise; check-in 19:00, one closed break of 30 minutes and
\* check-out 04:10 give working time 520 min and overtime 5 min (in seconds).
C20_Example(r) ==
    /\ r.checkIn = At(0, 19, 0, 0) /\ r.checkOut = At(1, 4, 10, 0)
    /\ Len(r.breaks) = 1 /\ r.breaks[1].endTime # Null /\ r.breaks[1].duration = 30
C20_OvertimeBoundary ==
    \A r \in store :
        Complete(r) =>
            /\ r.overtime =
                   (IF SecOfDay(r.checkOut) > HMS(4, 5, 0)
                       /\ SecOfDay(r.checkOut) < HMS(12, 0, 0)
                    THEN SecOfDay(r.checkOut) - HMS(4, 5, 0)
                    ELSE 0)
            /\ C20_Example(r) =>
                   /\ r.checkOut - r.checkIn = 550 * 60
                   /\ r.workingHours = 520 * 60
                   /\ r.overtime = 5 * 60
C20_Witness ==
    \E r \in store : Complete(r) /\ C20_Example(r) /\ r.overtime = 5 * 60

C22_RecordLifecycle ==
    [][ /\ \A r \in store :
             \E r2 \in store' :
                 r2.id = r.id /\ r2.employee = r.employee /\ r2.date = r.date
        /\ \A r2 \in store' :
             (\A r \in store : r.id # r2.id) =>
                 /\ resp'.op = "checkin" /\ resp'.result = "ok"
                 /\ r2.employee = resp'.emp /\ r2.date = resp'.date
                 /\ r2.checkIn = resp'.now
        /\ \A k \in Keys : Cardinality(RecordsOf(store', k[1], k[2])) <= 1
        /\ \A r2 \in store' : <<r2.employee, r2.date>> \in Keys
      ]_vars
C22_Witness ==
    /\ resp.op = "checkout" /\ resp.result = "ok"
    /\ Cardinality(store) = 1
    /\ okIn[<<resp.emp, resp.date>>] = 1
    /\ \E r \in store : r.checkOut = resp.now /\ Len(r.breaks) = 1

\* C23: a break-start whose reason is outside {washroom, lunch, cigarette,
\* break} is answered with an error and leaves the store as it was (a
\* validation error when the record would otherwise accept a break); one
\* without a reason that succeeds stores the reason 'break'.
C23_BreakReason ==
    [][ \A s \in Slots : Completes(s, "breakstart") =>
          LET q == reqs[s]
          IN  /\ ~ ValidReason(q.reason) =>
                    /\ resp'.result # "ok" /\ store' = store
                    /\ (\E r \in RecordsOf(store, q.emp, q.date) :
                            r.checkIn # Null /\ r.checkOut = Null /\ OpenBreaks(r) = {})
                          => resp'.result = "ValidationError"
              /\ (q.reason = "" /\ resp'.result = "ok") =>
                    \E r2 \in RecordsOf(store', q.emp, q.date) :
                        /\ Len(r2.breaks) > 0
                        /\ r2.breaks[Len(r2.breaks)].reason = "break"
                        /\ r2.breaks[Len(r2.breaks)].startTime = resp'.now
      ]_vars
C23_Witness ==
    /\ resp.op = "breakstart" /\ resp.result = "ValidationError"
    /\ \E r \in RecordsOf(store, resp.emp, resp.date) :
           /\ r.checkIn # Null /\ r.checkOut = Null
           /\ Len(r.breaks) = 1 /\ r.breaks[1].endTime # Null
           /\ r.breaks[1].reason = "break"

\* C24: a handler reads only the record of its own employee, and the step in
\* which it answers leaves the records of every other employee as they were
\* and creates none for them; a check-in is refused as already-checked-in (or
\* by the unique index) only when its own employee has a check-in for the
\* shift-date, and succeeds when its own employee has no record, whatever
\* records and requests other employees have.
C24_EmployeesIndependent ==
    [][ \A s \in Slots : (reqs[s] # Idle /\ reqs'[s] = Idle) =>
          LET q == reqs[s]
          IN  /\ { r \in store : r.employee # q.emp } = { r \in store' : r.employee # q.emp }
              /\ q.doc # NoDoc => q.doc.employee = q.emp
              /\ resp'.emp = q.emp
              /\ (q.op = "checkin" /\ resp'.result \in {"AlreadyCheckedIn", "DuplicateKey"})
                    => CheckedIn(store', q.emp, q.date)
              /\ (q.op = "checkin" /\ RecordsOf(store, q.emp, q.date) = {})
                    => resp'.result = "ok"
              /\ (q.op # "checkin" /\ resp'.result = "NotCheckedIn")
                    => q.doc = NoDoc
      ]_vars
C24_Witness ==
    /\ resp.op = "checkin" /\ resp.result = "ok" /\ resp.emp = 2
    /\ \E r \in store : r.employee = 1 /\ r.date = resp.date /\ r.checkIn < resp.now
    /\ \E s \in Slots : reqs[s].op = "checkout" /\ reqs[s].emp = 1

Rejections ==
    {"AlreadyCheckedIn", "OutsideWindow", "NotCheckedIn", "AlreadyCheckedOut",
     "BreakAlreadyOpen", "NoOpenBreak"}

\* the rejection that the store, the operation and the shift-date determine
\* for a rejected request of employee e
RejectionOf(op, e, date) ==
    LET rs == RecordsOf(store, e, date)
    IN  CASE op = "checkin" ->
               IF CheckedIn(store, e, date) THEN "AlreadyCheckedIn" ELSE "OutsideWindow"
          [] op = "checkout" ->
               IF ~ CheckedIn(store, e, date) THEN "NotCheckedIn" ELSE "AlreadyCheckedOut"
          [] op = "breakstart" ->
               IF ~ CheckedIn(store, e, date) THEN "NotCheckedIn"
               ELSE IF \E r \in rs : r.checkOut # Null THEN "AlreadyCheckedOut"
               ELSE "BreakAlreadyOpen"
          [] op = "breakend" ->
               IF ~ CheckedIn(store, e, date) THEN "NotCheckedIn" ELSE "NoOpenBreak"

\* C25: a rejected check-in, check-out, break-start or break-end leaves the
\* store as it was and no handler behind, and the rejection it gets is the
\* one that the store and the shift-date determine, so that the same request
\* in the same state and shift-date is rejected in the same way.
C25_RejectionsRepeat ==
    [][ (resp'.op \in {"checkin", "checkout", "breakstart", "breakend"}
         /\ resp'.result \in Rejections) =>
            /\ store' = store
            /\ \A s \in Slots : reqs'[s] = Idle
            /\ resp'.result = RejectionOf(resp'.op, resp'.emp, CheckInDate(resp'))
      ]_vars

\* C25 as far as it holds: the same, except that a NightShift check-in in the
\* dead zone is rejected as outside-window whether the employee is checked in
\* or not, so that a checked-in employee is answered already-checked-in
\* before 04:00 and outside-window from 04:00 on, in the same shift-date.
C25_RejectionsTerminal ==
    [][ (resp'.op \in {"checkin", "checkout", "breakstart", "breakend"}
         /\ resp'.result \in Rejections) =>
            /\ store' = store
            /\ \A s \in Slots : reqs'[s] = Idle
            /\ resp'.result =
                  (IF resp'.op = "checkin" /\ IsNight /\ ~ Permitted(resp'.now)
                   THEN "OutsideWindow"
                   ELSE RejectionOf(resp'.op, resp'.emp, CheckInDate(resp')))
      ]_vars
C25_Witness ==
    /\ resp.op = "breakstart" /\ resp.result = "BreakAlreadyOpen"
    /\ budget = MaxCalls - 4
    /\ \E r \in RecordsOf(store, resp.emp, resp.date) :
           Len(r.breaks) = 1 /\ r.breaks[1].endTime = Null /\ r.checkOut = Null

\* C26: with overlapping break-starts, too, no stored record has two breaks
\* without endTime, and the open break of a record is the one that the
\* break-start which succeeded has appended.
C26_OneOpenBreakOverlapping ==
    /\ \A r \in store : Cardinality(OpenBreaks(r)) <= 1
    /\ (resp.op = "breakstart" /\ resp.result = "ok") =>
           \A r \in RecordsOf(store, resp.emp, resp.date) :
               \A i \in OpenBreaks(r) : i = Len(r.breaks) /\ r.breaks[i].startTime = resp.now

\* C27: every status a check-in or check-out assigns is in the status enum of
\* the schema it is saved through: no check-in or check-out that has passed
\* the route's own tests is answered with a validation error, and every
\* stored status is a member of the enum of the deployment's schema.
C27_StatusInEnum ==
    /\ (resp.op \in {"checkin", "checkout"}) => resp.result # "ValidationError"
    /\ \A r \in store : r.status \in StatusEnum

\* the shift-date of an instant as the rules state it: NightShift days start
\* at 18:00, DayShift days at midnight
RuleShiftDate(now) == IF IsNight THEN ShiftDateByHour(now) ELSE (now \div Day) * Day

\* C28: a check-in, check-out, break-start or break-end that arrives when the
\* shift-date of the clock is past a record's date leaves that record as it
\* is, whatever state it was left in; a check-out or break-end that arrives
\* then, the employee not checked in for the new shift-date, is answered with
\* the need-to-check-in-first rejection.
C28_RolloverFreezes ==
    [][\A s \in Slots :
          (reqs[s] # Idle /\ reqs'[s] = Idle) =>
              /\ \A r \in store : r.date < RuleShiftDate(reqs[s].now) => r \in store'
              /\ (/\ reqs[s].op \in {"checkout", "breakend"}
                  /\ \E r \in store : r.employee = reqs[s].emp /\ r.date < RuleShiftDate(reqs[s].now)
                  /\ ~CheckedIn(store, reqs[s].emp, RuleShiftDate(reqs[s].now)))
                     => resp'.result = "NotCheckedIn"]_vars

\* a break-end that arrived after the rollover has been turned away; the
\* record of the shift before is still checked in, not checked out, its break open
C28_Witness ==
    /\ resp.op = "breakend" /\ resp.result = "NotCheckedIn"
    /\ \E r \in store :
          /\ r.employee = resp.emp /\ r.date < RuleShiftDate(resp.now)
          /\ r.checkIn # Null /\ r.checkOut = Null /\ OpenBreaks(r) # {}

\* C29: a check-out of a checked-in, not checked-out record succeeds whether
\* or not a break is open and leaves the breaks as they were; on a record with
\* a check-out a break-start is refused, and a break-end of its open break is
\* accepted: the break gets an endTime not before checkOut.time and its
\* duration, and the save subtracts the duration from workingHours.
C29_CheckOutIgnoresBreaks ==
    [][ \A s \in Slots :
          LET q == reqs[s]
          IN  /\ (Completes(s, "checkout") /\ hasCheckIn(q.doc) /\ q.doc.checkOut = Null) =>
                    /\ resp'.result = "ok"
                    /\ \E r2 \in store' :
                          /\ r2.id = q.doc.id
                          /\ r2.checkOut = resp'.now
                          /\ r2.breaks = q.doc.breaks
              /\ (Completes(s, "breakstart") /\ hasCheckIn(q.doc) /\ q.doc.checkOut # Null) =>
                    /\ resp'.result = "AlreadyCheckedOut"
                    /\ store' = store
              /\ (Completes(s, "breakend") /\ hasCheckIn(q.doc) /\ q.doc.checkOut # Null
                                           /\ OpenBreaks(q.doc) # {}) =>
                    /\ resp'.result = "ok"
                    /\ \E r2 \in store', i \in OpenBreaks(q.doc) :
                          /\ r2.id = q.doc.id
                          /\ r2.checkOut = q.doc.checkOut
                          /\ r2.breaks[i].endTime = resp'.now
                          /\ r2.breaks[i].endTime >= r2.checkOut
                          /\ r2.breaks[i].duration = (resp'.now - q.doc.breaks[i].startTime) \div 60
                          /\ r2.workingHours =
                                Max(0, (r2.checkOut - r2.checkIn) - 60 * ClosedBreakMinutes(r2.breaks))
                          /\ r2.workingHours <= q.doc.workingHours
      ]_vars

\* checked out at 19:00 with a break open, the break ended afterwards: its
\* minutes have been taken off the hours worked
C29_Witness ==
    /\ resp.op = "breakend" /\ resp.result = "ok"
    /\ \E r \in RecordsOf(store, resp.emp, resp.date) :
          /\ Complete(r) /\ Len(r.breaks) = 1
          /\ r.breaks[1].startTime < r.checkOut
          /\ r.breaks[1].endTime > r.checkOut
          /\ r.breaks[1].duration > 0
          /\ r.workingHours = (r.checkOut - r.checkIn) - 60 * r.breaks[1].duration
          /\ r.workingHours > 0

\* C30: NightShift with the 04:05 boundary: a record that has been checked
\* out has status 'overtime' exactly when its stored overtime is > 0, after
\* the check-out and after any break-end that follows it.
C30_OvertimeStatusAgrees ==
    \A r \in store :
        Complete(r) => (r.status = "overtime" <=> r.overtime > 0)

\* checked out after 04:05 with a break open, the break ended afterwards: the
\* record is still 'overtime' and its overtime still positive
C30_Witness ==
    /\ resp.op = "breakend" /\ resp.result = "ok"
    /\ \E r \in RecordsOf(store, resp.emp, resp.date) :
          /\ Complete(r)
          /\ r.checkOut > setHours(r.checkOut, 4, 5, 0)
          /\ r.status = "overtime" /\ r.overtime > 0
          /\ \E i \in 1..Len(r.breaks) : r.breaks[i].endTime > r.checkOut

====
